---------------------------- MODULE Spec2Model ----------------------------
(***************************************************************************)
(* Model of the Collatz scanner in src/src/main.rs: the orbit step, the    *)
(* Floyd classification (detect_outcome), the checkpoint reader and the    *)
(* two durable writers, the scan loop of real_main with its bounded        *)
(* channel to the visualization thread, the consumer's side of that       *)
(* channel, the range sampler (Rng::gen_range_biguint), runs chained by a  *)
(* kill and a resume, and the animation loop of run_viz.                   *)
(*                                                                         *)
(* BigUint values are naturals.  TLC's integers are 32 bits wide, so the   *)
(* three magnitudes of the source that do not fit (2^68, 2^2000 - 1 and    *)
(* u64::MAX) are scaled: each is a named bound below.                      *)
(***************************************************************************)
EXTENDS Naturals, Sequences, FiniteSets, TLC

\* ------------------------------------------------------------------ bounds

\* 1 << DefaultStartBits stands for 1 << 68 (default_start and rand_low).
DefaultStartBits == 2
\* (1 << RandHighBits) - 1 stands for (1 << 2000) - 1 (rand_high_inclusive).
RandHighBits == 3
\* The step ceiling of detect_outcome during a scan; stands for u64::MAX.
StepCeiling == 6
\* The step ceiling when detect_outcome is examined on its own: large enough
\* that no start of 0..MaxStart hits it, as with u64::MAX.
ClassifyCeiling == 200
\* Largest start classified on its own.
MaxStart == 28
\* The scan loop is cut off after this many candidates.
MaxProcessed == 3

\* Option<T>: None is the empty sequence, Some(v) the one-element sequence.
None == <<>>
Some(v) == <<v>>
Unwrap(o) == o[1]

\* A file that does not exist, and one that holds `lines`.
Absent == [exists |-> FALSE, lines |-> <<>>]
FileOf(lines) == [exists |-> TRUE, lines |-> lines]

\* ---------------------------------------------------------- pure functions

\* collatz_next with the odd branch 3n - 1.
collatz_next_minus(n) ==
    IF n % 2 = 0 THEN n \div 2 ELSE 3 * n - 1

\* fn collatz_next
collatz_next(n) ==
    IF n % 2 = 0 THEN n \div 2 ELSE 3 * n + 1

\* A counter that is never advanced.
wrapping_add_stuck(a, b, max) == a

\* u64::wrapping_add, with u64::MAX scaled to `max`.
wrapping_add(a, b, max) == (a + b) % (max + 1)

\* A walk that never tests for 1.
reached_one_never(x) == FALSE

\* if x == BigUint::one() { return Outcome::ReachesOne; }
reached_one(x) == x = 1

\* The walk of detect_outcome from the meeting point: the second loop.
RECURSIVE CycleWalk(_, _)
CycleWalk(x, meet) ==
    IF reached_one(x) THEN "ReachesOne"
    ELSE LET nx == collatz_next(x)
         IN  IF nx = meet THEN "NontrivialCycle" ELSE CycleWalk(nx, meet)

\* The detection loop of detect_outcome: tortoise one step, hare two steps,
\* step_count incremented and compared with the ceiling after each advance.
RECURSIVE FloydLoop(_, _, _, _)
FloydLoop(tortoise, hare, step_count, ceiling) ==
    IF tortoise = hare THEN CycleWalk(tortoise, tortoise)
    ELSE LET t2 == collatz_next(tortoise)
             h2 == collatz_next(collatz_next(hare))
             s2 == wrapping_add(step_count, 1, ceiling)
         IN  IF s2 = ceiling THEN "StepsOverflow"
             ELSE FloydLoop(t2, h2, s2, ceiling)

\* fn detect_outcome, with the ceiling (u64::MAX in the source) a parameter.
detect_outcome(start, ceiling) ==
    LET tortoise == collatz_next(start)
        hare     == collatz_next(collatz_next(tortoise))
    IN  FloydLoop(tortoise, hare, 0, ceiling)

\* ------------------------------------------------- decimal text and files

\* A file is Absent or holds a sequence of lines; a line is a sequence of
\* one-character strings, or BadLine: a line lines() cannot decode.
DigitChars == <<"0", "1", "2", "3", "4", "5", "6", "7", "8", "9">>
Space == " "
BadLine == <<"\\xff">>

IsDigit(ch) == \E i \in 1..10 : DigitChars[i] = ch
DigitValue(ch) == (CHOOSE i \in 1..10 : DigitChars[i] = ch) - 1

\* BigUint::to_str_radix(10): no leading zeros, "0" for zero.
RECURSIVE to_str_radix(_)
to_str_radix(n) ==
    IF n < 10 THEN <<DigitChars[n + 1]>>
    ELSE to_str_radix(n \div 10) \o <<DigitChars[(n % 10) + 1]>>

\* str::trim: leading and trailing whitespace removed.
RECURSIVE TrimLeft(_)
TrimLeft(l) ==
    IF l # <<>> /\ Head(l) = Space THEN TrimLeft(Tail(l)) ELSE l
RECURSIVE TrimRight(_)
TrimRight(l) ==
    IF l # <<>> /\ l[Len(l)] = Space THEN TrimRight(SubSeq(l, 1, Len(l) - 1))
    ELSE l
trim(l) == TrimRight(TrimLeft(l))

\* str::parse::<BigUint>: Ok(value) for a non-empty run of decimal digits,
\* Err (None) otherwise.
RECURSIVE ParseDigits(_, _)
ParseDigits(t, acc) ==
    IF t = <<>> THEN acc
    ELSE ParseDigits(Tail(t), 10 * acc + DigitValue(Head(t)))
parse(t) ==
    IF t # <<>> /\ \A i \in 1..Len(t) : IsDigit(t[i])
    THEN Some(ParseDigits(t, 0)) ELSE None

\* The loop of read_last_start over the lines: map_while(Result::ok) stops at
\* the first line that cannot be read; blank lines are skipped; the last line
\* that parses wins.
RECURSIVE ReadLines(_, _)
ReadLines(lines, last) ==
    IF lines = <<>> \/ Head(lines) = BadLine THEN last
    ELSE LET t == trim(Head(lines))
         IN  IF t = <<>> THEN ReadLines(Tail(lines), last)
             ELSE IF parse(t) # None THEN ReadLines(Tail(lines), parse(t))
             ELSE ReadLines(Tail(lines), last)

\* read_last_start that returns the first parsable line instead of the last.
RECURSIVE ReadFirst(_)
ReadFirst(lines) ==
    IF lines = <<>> \/ Head(lines) = BadLine THEN None
    ELSE IF parse(trim(Head(lines))) # None THEN parse(trim(Head(lines)))
    ELSE ReadFirst(Tail(lines))
read_last_start_first(file) ==
    IF ~file.exists THEN None ELSE ReadFirst(file.lines)

\* fn read_last_start: None when the file cannot be opened.
read_last_start(file) ==
    IF ~file.exists THEN None ELSE ReadLines(file.lines, None)

\* The outcomes of one durable write (write_progress_number, write_solution):
\* open with create+truncate, writeln, flush, sync_all, each of which may fail.
IoResults == {"ok", "open_err", "write_err", "sync_err"}

\* The file after a create+truncate write of one line that ended with `res`:
\* a failed open leaves the file as it was, a failed writeln leaves it
\* truncated, a failed sync_all comes after the line was written.
FileAfterWrite(file, line, res) ==
    CASE res = "open_err"  -> file
      [] res = "write_err" -> FileOf(<<>>)
      [] OTHER             -> FileOf(<<line>>)

\* The line write_progress_number writes.
ProgressLine(value) == to_str_radix(value)

\* The two tags exchanged.
SolutionTag_swapped(outcome) ==
    IF outcome = "NontrivialCycle" THEN "RUNAWAY_STEPS_OVERFLOW_START"
    ELSE "NONTRIVIAL_CYCLE_START"

\* The line write_solution is given: format!("{kind} {current}").
SolutionTag(outcome) ==
    IF outcome = "NontrivialCycle" THEN "NONTRIVIAL_CYCLE_START"
    ELSE "RUNAWAY_STEPS_OVERFLOW_START"
SolutionLine(outcome, current) ==
    <<SolutionTag(outcome), Space>> \o to_str_radix(current)

\* ------------------------------------------------------------- the channel

\* mpsc::sync_channel::<VizMsg>(4)
ChannelCapacity == 4

\* enum VizMsg.  Stats carries the processed count; its rate (sps) is a
\* floating-point function of wall-clock time and is left out.
Draw(value) == [kind |-> "Draw", value |-> value]
Stats(count) == [kind |-> "Stats", value |-> count]

\* A send that waits for room (SyncSender::send) instead of try_send.
send_ready_blocking(ch, alive) == ~alive \/ Len(ch) < ChannelCapacity

\* Whether SyncSender::try_send returns at once: it always does.
try_send_ready(ch, alive) == TRUE

\* The Result of SyncSender::try_send on buffer `ch` whose receiver is `alive`.
try_send_result(ch, alive) ==
    IF ~alive THEN "disconnected"
    ELSE IF Len(ch) >= ChannelCapacity THEN "full"
    ELSE "ok"

\* The buffer after SyncSender::try_send: the message is enqueued only when
\* the receiver lives and there is room; otherwise it is dropped.
try_send(ch, alive, msg) ==
    IF try_send_result(ch, alive) = "ok" THEN Append(ch, msg) ELSE ch

\* A send whose error is propagated with `?`.
after_try_send_fatal(result, next_pc) ==
    IF result = "ok" THEN next_pc ELSE "exit1"

\* `let _ = tx.try_send(..)`: the Result is discarded and the loop goes on.
after_try_send(result, next_pc) == next_pc

\* ---------------------------------------------------------------- the scan

\* A write whose error is ignored.
after_write_ignored(res, next_pc) == next_pc

\* `write_..(..)?` in real_main, and main's exit(1) on Err: where the
\* producer is after a write that ended with `res`.
after_write(res, next_pc) == IF res = "ok" THEN next_pc ELSE "exit1"

\* let default_start = BigUint::one() << 68
default_start == 2 ^ DefaultStartBits
\* let rand_low = BigUint::one() << 68
rand_low == 2 ^ DefaultStartBits
\* let rand_high_inclusive = (BigUint::one() << 2000) - BigUint::one()
rand_high_inclusive == 2 ^ RandHighBits - 1

\* Start selection that resumes at the persisted value itself.
select_start_same(start_arg, resume, file) ==
    IF start_arg # None THEN Unwrap(start_arg)
    ELSE IF resume /\ read_last_start(file) # None
         THEN Unwrap(read_last_start(file))
    ELSE default_start

\* The start of real_main: explicit, else resumed (last + 1), else default.
select_start(start_arg, resume, file) ==
    IF start_arg # None THEN Unwrap(start_arg)
    ELSE IF resume
         THEN IF read_last_start(file) # None
              THEN Unwrap(read_last_start(file)) + 1
              ELSE default_start
    ELSE default_start

\* The values of a byte (256 in the source) and the bytes of a generator
\* word (8 in the source), scaled.
ByteBase == 4
WordBytes == 2

\* span.to_bytes_be().len().max(1): the bytes of one draw.
RECURSIVE ByteLen(_)
ByteLen(n) == IF n < ByteBase THEN 1 ELSE 1 + ByteLen(n \div ByteBase)

\* BigUint::from_bytes_be
RECURSIVE from_bytes_be(_)
from_bytes_be(buf) ==
    IF buf = <<>> THEN 0
    ELSE from_bytes_be(SubSeq(buf, 1, Len(buf) - 1)) * ByteBase + buf[Len(buf)]

\* A span that leaves the upper end out.
span_of_exclusive(low, high_inclusive) == high_inclusive - low

\* let span = high_inclusive - low + &one;
span_of(low, high_inclusive) == high_inclusive - low + 1

\* A comparison that also accepts v = span.
sample_accepts_equal(v, span) == v <= span

\* match v.cmp(&span) { Ordering::Less => return low + v, _ => continue }
sample_accepts(v, span) == v < span

\* The calls of next_u64 that fill `len` bytes: the while loop takes
\* min(8, len - i) bytes of each word.
calls_to_fill(len) == (len + WordBytes - 1) \div WordBytes

\* The values Rng::gen_range_biguint(low, high_inclusive) can return: low when
\* the range is degenerate, else low + v for a draw v of ByteLen(span) bytes
\* that is accepted (v < span).  The generator is seeded from the clock, so
\* every draw is possible.
gen_range_biguint(low, high_inclusive) ==
    IF low >= high_inclusive THEN {low}
    ELSE LET span == span_of(low, high_inclusive)
         IN  {low + v : v \in {d \in 0..(ByteBase ^ ByteLen(span) - 1) :
                                    sample_accepts(d, span)}}

\* A startup write of the value after the start.
startup_value_next(start) == start + 1

\* The value of the startup write: write_progress_number(progress_path, &start)
startup_value(start) == start

\* The sequential candidate: &start + &BigUint::from(processed)
candidate(start, count) == start + count

\* let current = if random { rng.gen_range_biguint(..) } else { start + .. }:
\* the values the candidate of a pass can take.
next_candidates(random, start, count) ==
    IF random THEN gen_range_biguint(rand_low, rand_high_inclusive)
    ELSE {candidate(start, count)}

\* A cadence that forgets the mode.
checkpoint_due_any_mode(random, count, interval) == count % interval = 0

\* if !random && processed % progress_interval == 0
checkpoint_due(random, count, interval) == ~random /\ count % interval = 0

\* An end of real_main that returns whatever the visualization option.
after_loop_next_return(vz) == "exit0"

\* if viz_sender.is_some() { loop { sleep } }  Ok(())
after_loop_next(vz) == IF vz THEN "hold" ELSE "exit0"

\* Every outcome stops the scan.
is_finding_always(outcome) == TRUE

\* The arms of `match outcome` that write a solution record and break.
is_finding(outcome) == outcome \in {"NontrivialCycle", "StepsOverflow"}

\* if let Some(limit) = count { if processed >= limit { .. break } }
limit_reached(count, done) == count # None /\ done >= Unwrap(count)

\* The events the scan leaves in `log`.
ClassifyEvent(value, result) ==
    [ev |-> "classify", value |-> value, line |-> <<>>, res |-> result]
ProgressEvent(value, res) ==
    [ev |-> "write_progress", value |-> value,
     line |-> ProgressLine(value), res |-> res]
SolutionEvent(value, result, res) ==
    [ev |-> "write_solution", value |-> value,
     line |-> SolutionLine(result, value), res |-> res]
CrashEvent == [ev |-> "crash", value |-> 0, line |-> <<>>, res |-> "killed"]

\* ------------------------------------------------------------------- state

VARIABLES
    cfg,              \* the options parse_args returns
    progress_at_start,\* the checkpoint file as the process found it
    pc,               \* where real_main is
    start,            \* let start
    processed,        \* let mut processed
    current,          \* let current (of the running iteration)
    outcome,          \* let outcome (of the running iteration)
    progress_file,    \* the checkpoint file
    solution_file,    \* the solution file
    log,              \* history: classifications and file writes, in order
    chan,             \* the buffer of the sync_channel
    rx_alive,         \* whether the Receiver exists
    viz_state,        \* the visualization thread: none, spawned, running, exited
    \* one call of detect_outcome, step by step
    f_pc,             \* entry, detect, walk, done (idle: no call is running)
    f_start,          \* the argument
    f_ceiling,        \* the step ceiling (u64::MAX in the source)
    step_count,       \* let mut step_count
    tortoise,         \* let mut tortoise
    hare,             \* let mut hare
    meet,             \* let meet
    x,                \* let mut x
    f_result,         \* the Outcome returned
    walked,           \* history: the values x has held during the walk
    \* one call of Rng::gen_range_biguint, step by step
    s_pc,             \* entry, loop, done (idle: no call is running)
    s_low,            \* low
    s_high,           \* high_inclusive
    s_span,           \* let span
    s_len,            \* let len
    s_buf,            \* let mut buf, as the last pass of the loop filled it
    s_v,              \* let v, of the last pass of the loop
    s_result,         \* the value returned
    rng_calls,        \* history: the calls of next_u64 (each changes the state)
    \* the animation state of run_viz
    v_pc,             \* poll, animate, exited (idle: no thread is followed)
    max_points,       \* let max_points
    current_n,        \* let mut current_n
    bits_window,      \* let mut bits_window
    should_redraw,    \* let mut should_redraw
    had_new_draw,     \* let mut had_new_draw
    title,            \* the window title
    polled            \* history: the messages received in the running pass

scanVars == <<cfg, progress_at_start, pc, start, processed, current, outcome,
              progress_file, solution_file, log>>
vizVars == <<chan, rx_alive, viz_state>>
floydVars == <<f_pc, f_start, f_ceiling, step_count, tortoise, hare, meet, x,
               f_result, walked>>
sampleVars == <<s_pc, s_low, s_high, s_span, s_len, s_buf, s_v, s_result,
                rng_calls>>
animVars == <<v_pc, max_points, current_n, bits_window, should_redraw,
              had_new_draw, title, polled>>
vars == <<cfg, progress_at_start, pc, start, processed, current, outcome,
          progress_file, solution_file, log, chan, rx_alive, viz_state,
          f_pc, f_start, f_ceiling, step_count, tortoise, hare, meet, x,
          f_result, walked,
          s_pc, s_low, s_high, s_span, s_len, s_buf, s_v, s_result, rng_calls,
          v_pc, max_points, current_n, bits_window, should_redraw,
          had_new_draw, title, polled>>

\* The options the model runs with.
StartArgs == {None, Some(0), Some(1), Some(5)}
CountArgs == {None, Some(0), Some(2), Some(3)}
IntervalArgs == {0, 2}
SequentialConfigs ==
    [start_arg : StartArgs, count_arg : CountArgs, resume : BOOLEAN,
     progress_interval_arg : IntervalArgs, random : {FALSE}, viz : BOOLEAN,
     viz_interval_arg : IntervalArgs]
\* Random mode multiplies the runs by the samples, so it gets fewer options.
RandomConfigs ==
    [start_arg : {None, Some(1)}, count_arg : {None, Some(2)}, resume : {TRUE},
     progress_interval_arg : {2}, random : {TRUE}, viz : BOOLEAN,
     viz_interval_arg : {0}]
Configs == SequentialConfigs \cup RandomConfigs

\* The checkpoint files a process may find: none, an empty one, one written
\* by an earlier run, and hand-edited ones (padding, blank and junk lines, an
\* undecodable line in the middle).
InitialProgressFiles ==
    { Absent,
      FileOf(<<>>),
      FileOf(<<<<"3">>>>),
      FileOf(<<<<"9">>, <<Space, "2", Space>>, <<>>, <<"x", "9">>>>),
      FileOf(<<<<"x">>, <<Space>>>>),
      FileOf(<<<<"1">>, BadLine, <<"4">>>>) }

\* let progress_interval = progress_interval_arg.max(1)
progress_interval == IF cfg.progress_interval_arg < 1 THEN 1
                     ELSE cfg.progress_interval_arg
\* let viz_interval = viz_interval_arg.max(1)
viz_interval == IF cfg.viz_interval_arg < 1 THEN 1 ELSE cfg.viz_interval_arg

\* No call of detect_outcome is being stepped through.
FloydIdle ==
    /\ f_pc = "idle"
    /\ f_start = 0
    /\ f_ceiling = 0
    /\ step_count = 0
    /\ tortoise = 0
    /\ hare = 0
    /\ meet = 0
    /\ x = 0
    /\ f_result = "none"
    /\ walked = {}

\* The animation state of no visualization thread is followed.
AnimIdle ==
    /\ v_pc = "idle"
    /\ max_points = 0
    /\ current_n = None
    /\ bits_window = <<>>
    /\ should_redraw = FALSE
    /\ had_new_draw = FALSE
    /\ title = "none"
    /\ polled = <<>>

\* No call of gen_range_biguint is being stepped through.
SampleIdle ==
    /\ s_pc = "idle"
    /\ s_low = 0
    /\ s_high = 0
    /\ s_span = 0
    /\ s_len = 0
    /\ s_buf = <<>>
    /\ s_v = 0
    /\ s_result = 0
    /\ rng_calls = 0

Init ==
    /\ FloydIdle
    /\ SampleIdle
    /\ AnimIdle
    /\ cfg \in Configs
    /\ progress_at_start \in InitialProgressFiles
    /\ pc = "init"
    /\ start = 0
    /\ processed = 0
    /\ current = 0
    /\ outcome = "ReachesOne"
    /\ progress_file = progress_at_start
    /\ solution_file = Absent
    /\ log = <<>>
    /\ chan = <<>>
    /\ rx_alive = FALSE
    /\ viz_state = "none"

\* fn write_progress_number: the checkpoint file after the call ended `res`.
write_progress_number(file, value, res) ==
    FileAfterWrite(file, ProgressLine(value), res)

\* fn write_solution: the solution file after the call ended `res`.
write_solution(file, line, res) == FileAfterWrite(file, line, res)

\* Whether the process is still running (main has not exited).
ProcessAlive == pc \notin {"exit0", "exit1"}

\* ------------------------------------------------------ the producer steps
\* The steps that touch the channel are split in two: the part on the scan's
\* own state, with the sender (vz: whether viz_sender is Some), the buffer and
\* the receiver's existence as parameters, and the part on the channel.

\* real_main up to the loop: the start is selected, the startup checkpoint is
\* written (sequential mode only) and the visualization thread is spawned.
Startup ==
    /\ pc = "init"
    /\ LET s == select_start(cfg.start_arg, cfg.resume, progress_file)
       IN  /\ start' = s
           /\ IF cfg.random
              THEN /\ pc' = "classify"
                   /\ UNCHANGED <<progress_file, log>>
              ELSE \E res \in IoResults :
                   /\ progress_file' =
                        write_progress_number(progress_file, startup_value(s), res)
                   /\ log' = Append(log, ProgressEvent(startup_value(s), res))
                   /\ pc' = after_write(res, "classify")
    /\ IF cfg.viz /\ pc' = "classify"
       THEN rx_alive' = TRUE /\ viz_state' = "spawned"
       ELSE UNCHANGED <<rx_alive, viz_state>>
    /\ UNCHANGED <<cfg, progress_at_start, processed, current, outcome,
                   solution_file, chan>>
    /\ UNCHANGED <<floydVars, sampleVars, animVars>>

\* The head of the loop body: the candidate is picked and classified, and the
\* checkpoint is written when processed is a multiple of progress_interval.
Classify ==
    /\ pc = "classify"
    /\ processed < MaxProcessed
    /\ \E c \in next_candidates(cfg.random, start, processed) :
         LET o == detect_outcome(c, StepCeiling)
         IN  /\ current' = c
             /\ outcome' = o
             /\ IF checkpoint_due(cfg.random, processed, progress_interval)
                THEN \E res \in IoResults :
                     /\ progress_file' =
                          write_progress_number(progress_file, c, res)
                     /\ log' = log \o <<ClassifyEvent(c, o), ProgressEvent(c, res)>>
                     /\ pc' = after_write(res, "draw")
                ELSE /\ log' = Append(log, ClassifyEvent(c, o))
                     /\ pc' = "draw"
                     /\ UNCHANGED progress_file
    /\ UNCHANGED <<cfg, progress_at_start, start, processed, solution_file>>
    /\ UNCHANGED <<vizVars, floydVars, sampleVars, animVars>>

\* if let Some(ref tx) = viz_sender { if processed % viz_interval == 0 { .. } }
DrawDue(vz) == vz /\ processed % viz_interval = 0

SendDrawScan(vz, ch, alive) ==
    /\ pc = "draw"
    /\ IF DrawDue(vz)
       THEN /\ try_send_ready(ch, alive)
            /\ pc' = after_try_send(try_send_result(ch, alive), "outcome")
       ELSE pc' = "outcome"
    /\ UNCHANGED <<cfg, progress_at_start, start, processed, current, outcome,
                   progress_file, solution_file, log>>

SendDraw ==
    /\ SendDrawScan(cfg.viz, chan, rx_alive)
    /\ chan' = IF DrawDue(cfg.viz) THEN try_send(chan, rx_alive, Draw(current))
               ELSE chan
    /\ UNCHANGED <<rx_alive, viz_state, floydVars, sampleVars, animVars>>

\* match outcome: ReachesOne keeps scanning; a finding writes the solution
\* record.
HandleOutcome ==
    /\ pc = "outcome"
    /\ IF is_finding(outcome)
       THEN \E res \in IoResults :
            /\ solution_file' =
                 write_solution(solution_file, SolutionLine(outcome, current), res)
            /\ log' = Append(log, SolutionEvent(current, outcome, res))
            /\ pc' = after_write(res, IF cfg.random THEN "after_loop"
                                      ELSE "final_ckpt")
       ELSE /\ pc' = "advance"
            /\ UNCHANGED <<solution_file, log>>
    /\ UNCHANGED <<cfg, progress_at_start, start, processed, current, outcome,
                   progress_file>>
    /\ UNCHANGED <<vizVars, floydVars, sampleVars, animVars>>

\* if !random { write_progress_number(progress_path, &current)?; } break;
FinalCheckpoint ==
    /\ pc = "final_ckpt"
    /\ \E res \in IoResults :
         /\ progress_file' = write_progress_number(progress_file, current, res)
         /\ log' = Append(log, ProgressEvent(current, res))
         /\ pc' = after_write(res, "after_loop")
    /\ UNCHANGED <<cfg, progress_at_start, start, processed, current, outcome,
                   solution_file>>
    /\ UNCHANGED <<vizVars, floydVars, sampleVars, animVars>>

\* processed = processed.saturating_add(1) (MaxProcessed keeps it far from
\* u64::MAX), then the Stats send when 500 ms have `elapsed`.
AdvanceScan(vz, ch, alive, elapsed) ==
    /\ pc = "advance"
    /\ processed' = processed + 1
    /\ IF vz /\ elapsed
       THEN /\ try_send_ready(ch, alive)
            /\ pc' = after_try_send(try_send_result(ch, alive), "limit")
       ELSE pc' = "limit"
    /\ UNCHANGED <<cfg, progress_at_start, start, current, outcome,
                   progress_file, solution_file, log>>

Advance ==
    \E elapsed \in BOOLEAN :
        /\ AdvanceScan(cfg.viz, chan, rx_alive, elapsed)
        /\ chan' = IF cfg.viz /\ elapsed
                   THEN try_send(chan, rx_alive, Stats(processed'))
                   ELSE chan
        /\ UNCHANGED <<rx_alive, viz_state, floydVars, sampleVars, animVars>>

\* The count limit: one more Draw of the last candidate, then break.
LimitCheckScan(vz, ch, alive) ==
    /\ pc = "limit"
    /\ IF limit_reached(cfg.count_arg, processed)
       THEN IF vz
            THEN /\ try_send_ready(ch, alive)
                 /\ pc' = after_try_send(try_send_result(ch, alive), "after_loop")
            ELSE pc' = "after_loop"
       ELSE pc' = "classify"
    /\ UNCHANGED <<cfg, progress_at_start, start, processed, current, outcome,
                   progress_file, solution_file, log>>

LimitCheck ==
    /\ LimitCheckScan(cfg.viz, chan, rx_alive)
    /\ chan' = IF limit_reached(cfg.count_arg, processed) /\ cfg.viz
               THEN try_send(chan, rx_alive, Draw(current))
               ELSE chan
    /\ UNCHANGED <<rx_alive, viz_state, floydVars, sampleVars, animVars>>

\* After the loop: with a sender the main thread sleeps forever, without one
\* real_main returns Ok(()) and the process exits with code 0.
Finish ==
    /\ pc = "after_loop"
    /\ pc' = after_loop_next(cfg.viz)
    /\ UNCHANGED <<cfg, progress_at_start, start, processed, current, outcome,
                   progress_file, solution_file, log>>
    /\ UNCHANGED <<vizVars, floydVars, sampleVars, animVars>>

\* loop { thread::sleep(Duration::from_millis(1000)); }
HoldOpen ==
    /\ pc = "hold"
    /\ UNCHANGED vars

\* ------------------------------------------------------ the consumer steps
\* run_viz as the channel sees it; its animation state does not reach the
\* producer and is not part of this state.

\* Window::new: on Err the thread returns and the Receiver is dropped.
VizStart ==
    /\ viz_state = "spawned"
    /\ ProcessAlive
    /\ \E ok \in BOOLEAN :
         IF ok THEN viz_state' = "running" /\ UNCHANGED <<chan, rx_alive>>
         ELSE viz_state' = "exited" /\ rx_alive' = FALSE /\ chan' = <<>>
    /\ UNCHANGED <<scanVars, floydVars, sampleVars, animVars>>

\* while let Ok(msg) = rx.try_recv(): one message is taken.
VizRecv ==
    /\ viz_state = "running"
    /\ ProcessAlive
    /\ chan # <<>>
    /\ chan' = Tail(chan)
    /\ UNCHANGED <<rx_alive, viz_state>>
    /\ UNCHANGED <<scanVars, floydVars, sampleVars, animVars>>

\* The window is closed or Escape is down: the loop ends, the thread returns
\* and the Receiver is dropped with what it still buffered.
VizClose ==
    /\ viz_state = "running"
    /\ ProcessAlive
    /\ viz_state' = "exited"
    /\ rx_alive' = FALSE
    /\ chan' = <<>>
    /\ UNCHANGED <<scanVars, floydVars, sampleVars, animVars>>

Producer ==
    \/ Startup
    \/ Classify
    \/ SendDraw
    \/ HandleOutcome
    \/ FinalCheckpoint
    \/ Advance
    \/ LimitCheck
    \/ Finish
    \/ HoldOpen

Consumer ==
    \/ VizStart
    \/ VizRecv
    \/ VizClose

Next == Producer \/ Consumer

Spec == Init /\ [][Next]_vars

\* ------------------------------------------- detect_outcome, step by step

\* No process is running: the state of a process that was never started.
ScanIdle ==
    /\ cfg = [start_arg |-> None, count_arg |-> None, resume |-> FALSE,
              progress_interval_arg |-> 0, random |-> FALSE, viz |-> FALSE,
              viz_interval_arg |-> 0]
    /\ progress_at_start = Absent
    /\ pc = "off"
    /\ start = 0
    /\ processed = 0
    /\ current = 0
    /\ outcome = "ReachesOne"
    /\ progress_file = Absent
    /\ solution_file = Absent
    /\ log = <<>>
    /\ chan = <<>>
    /\ rx_alive = FALSE
    /\ viz_state = "none"

InitClassify ==
    /\ ScanIdle
    /\ SampleIdle
    /\ AnimIdle
    /\ f_pc = "entry"
    /\ f_start \in 0..MaxStart
    /\ f_ceiling \in {StepCeiling, ClassifyCeiling}
    /\ step_count = 0
    /\ tortoise = 0
    /\ hare = 0
    /\ meet = 0
    /\ x = 0
    /\ f_result = "none"
    /\ walked = {}

\* let mut step_count = 0; let mut tortoise = ..; let mut hare = ..;
FloydEnter ==
    /\ f_pc = "entry"
    /\ step_count' = 0
    /\ tortoise' = collatz_next(f_start)
    /\ hare' = collatz_next(collatz_next(collatz_next(f_start)))
    /\ f_pc' = "detect"
    /\ UNCHANGED <<f_start, f_ceiling, meet, x, f_result, walked>>
    /\ UNCHANGED <<scanVars, vizVars, sampleVars, animVars>>

\* if tortoise == hare { break; }  let meet = tortoise; let mut x = meet.clone();
FloydMeet ==
    /\ f_pc = "detect"
    /\ tortoise = hare
    /\ meet' = tortoise
    /\ x' = tortoise
    /\ walked' = {tortoise}
    /\ f_pc' = "walk"
    /\ UNCHANGED <<f_start, f_ceiling, step_count, tortoise, hare, f_result>>
    /\ UNCHANGED <<scanVars, vizVars, sampleVars, animVars>>

\* One pass of the detection loop past the break.
FloydAdvance ==
    /\ f_pc = "detect"
    /\ tortoise # hare
    /\ tortoise' = collatz_next(tortoise)
    /\ hare' = collatz_next(collatz_next(hare))
    /\ step_count' = wrapping_add(step_count, 1, f_ceiling)
    /\ IF step_count' = f_ceiling
       THEN f_pc' = "done" /\ f_result' = "StepsOverflow"
       ELSE UNCHANGED <<f_pc, f_result>>
    /\ UNCHANGED <<f_start, f_ceiling, meet, x, walked>>
    /\ UNCHANGED <<scanVars, vizVars, sampleVars, animVars>>

\* One pass of the walk from the meeting point.
FloydWalk ==
    /\ f_pc = "walk"
    /\ IF reached_one(x)
       THEN f_pc' = "done" /\ f_result' = "ReachesOne"
                           /\ UNCHANGED <<x, walked>>
       ELSE /\ x' = collatz_next(x)
            /\ walked' = walked \cup {x'}
            /\ IF x' = meet
               THEN f_pc' = "done" /\ f_result' = "NontrivialCycle"
               ELSE UNCHANGED <<f_pc, f_result>>
    /\ UNCHANGED <<f_start, f_ceiling, step_count, tortoise, hare, meet>>
    /\ UNCHANGED <<scanVars, vizVars, sampleVars, animVars>>

NextClassify ==
    \/ FloydEnter
    \/ FloydMeet
    \/ FloydAdvance
    \/ FloydWalk

SpecClassify == InitClassify /\ [][NextClassify]_vars

\* A call that is running goes on running: the thread is not stopped.
SpecClassifyFair == SpecClassify /\ WF_vars(NextClassify)

\* The stepped call returns what the detect_outcome operator computes.
FloydAgrees ==
    f_pc = "done" /\ f_ceiling = StepCeiling
        => f_result = detect_outcome(f_start, f_ceiling)

\* -------------------------------------- gen_range_biguint, step by step

\* The ranges the sampler is called with, and the calls of next_u64 a run of
\* the model makes at most.
MaxLow == 5
MaxHigh == 20
MaxRngCalls == 4

InitSample ==
    /\ ScanIdle
    /\ FloydIdle
    /\ AnimIdle
    /\ s_pc = "entry"
    /\ s_low \in 0..MaxLow
    /\ s_high \in 0..MaxHigh
    /\ s_span = 0
    /\ s_len = 0
    /\ s_buf = <<>>
    /\ s_v = 0
    /\ s_result = 0
    /\ rng_calls = 0

\* if low >= high_inclusive { return low.clone(); }
\* let span = ..; let len = span_bytes.len().max(1);
SampleEnter ==
    /\ s_pc = "entry"
    /\ IF s_low >= s_high
       THEN /\ s_pc' = "done"
            /\ s_result' = s_low
            /\ UNCHANGED <<s_span, s_len>>
       ELSE /\ s_pc' = "loop"
            /\ s_span' = span_of(s_low, s_high)
            /\ s_len' = ByteLen(s_span')
            /\ UNCHANGED s_result
    /\ UNCHANGED <<s_low, s_high, s_buf, s_v, rng_calls>>
    /\ UNCHANGED <<scanVars, vizVars, floydVars, animVars>>

\* One pass of the loop: len bytes are taken from the generator (the leading
\* bytes of each word, any values), read as a big-endian integer v, and v is
\* returned above low or rejected.
SampleDraw ==
    /\ s_pc = "loop"
    /\ rng_calls + calls_to_fill(s_len) <= MaxRngCalls
    /\ \E buf \in [1..s_len -> 0..(ByteBase - 1)] :
         LET v == from_bytes_be(buf)
         IN  /\ s_buf' = buf
             /\ s_v' = v
             /\ IF sample_accepts(v, s_span)
                THEN s_pc' = "done" /\ s_result' = s_low + v
                ELSE UNCHANGED <<s_pc, s_result>>
    /\ rng_calls' = rng_calls + calls_to_fill(s_len)
    /\ UNCHANGED <<s_low, s_high, s_span, s_len>>
    /\ UNCHANGED <<scanVars, vizVars, floydVars, animVars>>

NextSample ==
    \/ SampleEnter
    \/ SampleDraw

SpecSample == InitSample /\ [][NextSample]_vars

\* The stepped call returns one of the values of the gen_range_biguint
\* operator.
SampleAgrees ==
    s_pc = "done" => s_result \in gen_range_biguint(s_low, s_high)

\* ---------------------------------------------- run_viz, pass by pass
\* The loop of run_viz with its animation state.  The scan is the
\* environment: it puts Draw and Stats messages on the channel at any time.

\* bit_len.min(5000)
BitLenCap == 5000
RECURSIVE BitLen(_)
BitLen(n) == IF n = 0 THEN 0 ELSE 1 + BitLen(n \div 2)

\* fn bit_len_biguint
bit_len_biguint(n) == IF BitLen(n) < BitLenCap THEN BitLen(n) ELSE BitLenCap

\* let steps_per_tick = (max_points / 60).clamp(1, 2000);
steps_per_tick(mp) ==
    IF mp \div 60 < 1 THEN 1 ELSE IF mp \div 60 > 2000 THEN 2000 ELSE mp \div 60

\* A Draw that keeps the samples of the previous trajectory.
window_after_draw_kept(w) == w

\* bits_window.clear() of the Draw arm
window_after_draw(w) == <<>>

\* bits_window.push_back(bit_len_biguint(n).max(1));
\* if bits_window.len() > max_points { bits_window.pop_front(); }
push_sample(w, n, mp) ==
    LET bits == IF bit_len_biguint(n) < 1 THEN 1 ELSE bit_len_biguint(n)
        w2   == Append(w, bits)
    IN  IF Len(w2) > mp THEN Tail(w2) ELSE w2

\* for _ in 0..steps_per_tick { push; if *n == one { break; } *n = next }
RECURSIVE AnimateSteps(_, _, _, _)
AnimateSteps(n, w, k, mp) ==
    IF k = 0 THEN [n |-> n, w |-> w]
    ELSE LET w2 == push_sample(w, n, mp)
         IN  IF n = 1 THEN [n |-> n, w |-> w2]
             ELSE AnimateSteps(collatz_next(n), w2, k - 1, mp)

\* The history lengths run_viz is started with, the messages the scan sends
\* and how many of them one pass of the loop is given.
MaxHistory == 3
MaxPolled == 3
DrawValues == {1, 3}
StatsCounts == {2}
VizMessages == {Draw(v) : v \in DrawValues} \cup {Stats(c) : c \in StatsCounts}

InitViz ==
    /\ FloydIdle
    /\ SampleIdle
    /\ cfg = [start_arg |-> None, count_arg |-> None, resume |-> FALSE,
              progress_interval_arg |-> 0, random |-> FALSE, viz |-> TRUE,
              viz_interval_arg |-> 0]
    /\ progress_at_start = Absent
    /\ pc = "off"
    /\ start = 0
    /\ processed = 0
    /\ current = 0
    /\ outcome = "ReachesOne"
    /\ progress_file = Absent
    /\ solution_file = Absent
    /\ log = <<>>
    /\ chan = <<>>
    /\ rx_alive = TRUE
    /\ viz_state = "running"
    /\ v_pc = "poll"
    /\ \E max_steps \in 0..MaxHistory :
         max_points = IF max_steps < 1 THEN 1 ELSE max_steps
    /\ current_n = None
    /\ bits_window = <<>>
    /\ should_redraw = FALSE
    /\ had_new_draw = FALSE
    /\ title = None
    /\ polled = <<>>

\* The scan's try_send of a Draw or a Stats message.
ScanSend ==
    /\ v_pc \in {"poll", "animate"}
    /\ Len(polled) + Len(chan) < MaxPolled
    /\ \E msg \in VizMessages : chan' = try_send(chan, rx_alive, msg)
    /\ UNCHANGED <<rx_alive, viz_state>>
    /\ UNCHANGED <<scanVars, floydVars, sampleVars, animVars>>

\* while let Ok(msg) = rx.try_recv() { match msg { .. } }: one message.
VizPoll ==
    /\ v_pc = "poll"
    /\ chan # <<>>
    /\ chan' = Tail(chan)
    /\ polled' = Append(polled, Head(chan))
    /\ IF Head(chan).kind = "Draw"
       THEN /\ current_n' = Some(Head(chan).value)
            /\ bits_window' = window_after_draw(bits_window)
            /\ should_redraw' = TRUE
            /\ had_new_draw' = TRUE
            /\ UNCHANGED title
       ELSE /\ title' = Some(Head(chan).value)
            /\ UNCHANGED <<current_n, bits_window, should_redraw, had_new_draw>>
    /\ UNCHANGED <<v_pc, max_points, rx_alive, viz_state>>
    /\ UNCHANGED <<scanVars, floydVars, sampleVars>>

\* try_recv returns Err: the channel is empty and the polling ends.
VizPollEnd ==
    /\ v_pc = "poll"
    /\ chan = <<>>
    /\ v_pc' = "animate"
    /\ UNCHANGED <<max_points, current_n, bits_window, should_redraw,
                   had_new_draw, title, polled>>
    /\ UNCHANGED <<scanVars, vizVars, floydVars, sampleVars>>

\* The rest of the pass: the trajectory is extended by steps_per_tick samples,
\* a fallback sample replaces a trajectory that reached 1 when no Draw came,
\* the window is redrawn; the next pass starts with both flags false.
VizAnimate ==
    /\ v_pc = "animate"
    /\ IF current_n = None
       THEN UNCHANGED <<current_n, bits_window>>
       ELSE LET r == AnimateSteps(Unwrap(current_n), bits_window,
                                  steps_per_tick(max_points), max_points)
            IN  IF r.n = 1 /\ ~had_new_draw
                THEN /\ \E v \in gen_range_biguint(rand_low, rand_high_inclusive) :
                          current_n' = Some(v)
                     /\ bits_window' = <<>>
                ELSE /\ current_n' = Some(r.n)
                     /\ bits_window' = r.w
    /\ should_redraw' = FALSE
    /\ had_new_draw' = FALSE
    /\ polled' = <<>>
    /\ v_pc' = "poll"
    /\ UNCHANGED <<max_points, title>>
    /\ UNCHANGED <<scanVars, vizVars, floydVars, sampleVars>>

\* while window.is_open() && !window.is_key_down(Key::Escape): the loop ends,
\* the thread returns and the Receiver is dropped.
VizExit ==
    /\ v_pc = "poll"
    /\ polled = <<>>
    /\ v_pc' = "exited"
    /\ viz_state' = "exited"
    /\ rx_alive' = FALSE
    /\ chan' = <<>>
    /\ UNCHANGED <<max_points, current_n, bits_window, should_redraw,
                   had_new_draw, title, polled>>
    /\ UNCHANGED <<scanVars, floydVars, sampleVars>>

NextViz ==
    \/ ScanSend
    \/ VizPoll
    \/ VizPollEnd
    \/ VizAnimate
    \/ VizExit

SpecViz == InitViz /\ [][NextViz]_vars

\* ------------------------------------------------------- crash and resume
\* Sequential runs without visualization, chained over the two files: the
\* process is killed between two steps of real_main and started again with
\* resume and no explicit start.  The history outlives the processes.

MaxCrashes == 2
CrashConfigs ==
    [start_arg : {None, Some(5)}, count_arg : {None, Some(2)},
     resume : BOOLEAN, progress_interval_arg : IntervalArgs, random : {FALSE},
     viz : {FALSE}, viz_interval_arg : {0}]

IsCrash(e) == e.ev = "crash"
Crashes == Len(SelectSeq(log, IsCrash))

InitCrash ==
    /\ FloydIdle
    /\ SampleIdle
    /\ AnimIdle
    /\ cfg \in CrashConfigs
    /\ progress_at_start \in {Absent, FileOf(<<<<"3">>>>)}
    /\ pc = "init"
    /\ start = 0
    /\ processed = 0
    /\ current = 0
    /\ outcome = "ReachesOne"
    /\ progress_file = progress_at_start
    /\ solution_file = Absent
    /\ log = <<>>
    /\ chan = <<>>
    /\ rx_alive = FALSE
    /\ viz_state = "none"

\* The process is killed and a new one is started on the files it left.
Crash ==
    /\ ProcessAlive
    /\ Crashes < MaxCrashes
    /\ cfg' = [cfg EXCEPT !.start_arg = None, !.resume = TRUE]
    /\ progress_at_start' = progress_file
    /\ pc' = "init"
    /\ start' = 0
    /\ processed' = 0
    /\ current' = 0
    /\ outcome' = "ReachesOne"
    /\ log' = Append(log, CrashEvent)
    /\ UNCHANGED <<progress_file, solution_file>>
    /\ UNCHANGED <<vizVars, floydVars, sampleVars, animVars>>

NextCrash ==
    \/ Startup
    \/ Classify
    \/ SendDraw
    \/ HandleOutcome
    \/ FinalCheckpoint
    \/ Advance
    \/ LimitCheck
    \/ Finish
    \/ Crash

SpecCrash == InitCrash /\ [][NextCrash]_vars

\* ------------------------------------------------------------------ claims

\* What the claims read off the history.
IsClassify(e) == e.ev = "classify"
IsProgressWrite(e) == e.ev = "write_progress"
IsSolutionWrite(e) == e.ev = "write_solution"
IsFailedWrite(e) == e.ev \in {"write_progress", "write_solution"} /\ e.res # "ok"
Classified == SelectSeq(log, IsClassify)
ProgressWrites == SelectSeq(log, IsProgressWrite)
SolutionWrites == SelectSeq(log, IsSolutionWrite)
Findings == {"NontrivialCycle", "StepsOverflow"}
Terminated == pc \in {"after_loop", "hold", "exit0"}

\* The value a checkpoint file holds: its last line that, trimmed, is a run of
\* decimal digits, among the lines that can be read (those before the first
\* undecodable line).
ValueLines(file) ==
    {i \in 1..Len(file.lines) :
        /\ \A j \in 1..i : file.lines[j] # BadLine
        /\ parse(trim(file.lines[i])) # None}
HoldsValue(file) == file.exists /\ ValueLines(file) # {}
LastOf(S) == CHOOSE i \in S : \A j \in S : j <= i
HeldValue(file) == Unwrap(parse(trim(file.lines[LastOf(ValueLines(file))])))

\* C1: a sequential run started with resume enabled and no explicit start on a
\* checkpoint holding V classifies V + 1 first and nothing below V + 1.
C1_ResumeAfterCheckpoint ==
    cfg.resume /\ cfg.start_arg = None /\ ~cfg.random
               /\ HoldsValue(progress_at_start)
    => LET V == HeldValue(progress_at_start)
       IN  /\ Classified # <<>> => Classified[1].value = V + 1
           /\ \A i \in DOMAIN Classified : Classified[i].value >= V + 1

C1_Witness ==
    /\ cfg.resume /\ cfg.start_arg = None /\ ~cfg.random
    /\ progress_at_start = FileOf(<<<<"3">>>>)
    /\ Len(Classified) >= 2
    /\ Classified[1].value = 4

\* C2: whenever a sequential scan has terminated (finding or count limit) with
\* every write successful, the checkpoint file holds the last candidate.
C2_CheckpointHoldsLastCandidate ==
    Terminated /\ ~cfg.random /\ (\A i \in DOMAIN log : ~IsFailedWrite(log[i]))
    => progress_file = FileOf(<<to_str_radix(current)>>)

\* C3: the values written to the checkpoint file in one sequential run never
\* decrease, and after a write that got its line out the file reads back as
\* the value written.
C3_CheckpointWritesMonotone ==
    /\ \A i, j \in DOMAIN ProgressWrites :
          i <= j => ProgressWrites[i].value <= ProgressWrites[j].value
    /\ ProgressWrites # <<>>
         /\ ProgressWrites[Len(ProgressWrites)].res \in {"ok", "sync_err"}
       => /\ HoldsValue(progress_file)
          /\ HeldValue(progress_file) = ProgressWrites[Len(ProgressWrites)].value

C3_Witness ==
    /\ Len(ProgressWrites) >= 4
    /\ ProgressWrites[1].value < ProgressWrites[Len(ProgressWrites)].value
    /\ pc = "exit0"

\* C4: a candidate classified NontrivialCycle or StepsOverflow is the last one
\* classified, and the solution record written for it carries the matching
\* tag and that candidate; after ReachesOne the scan stops only at the count
\* limit and in sequential mode goes on with the next integer.
C4_FindingStopsScan ==
    \A i \in DOMAIN log :
        IsClassify(log[i]) =>
            IF log[i].res \in Findings
            THEN /\ \A j \in DOMAIN log : j > i => ~IsClassify(log[j])
                 /\ pc \in {"final_ckpt", "after_loop", "hold", "exit0"}
                    => /\ SolutionWrites # <<>>
                       /\ solution_file.exists
                       /\ Len(solution_file.lines) = 1
                 /\ \A j \in DOMAIN log :
                        IsSolutionWrite(log[j]) =>
                            /\ j > i
                            /\ log[j].value = log[i].value
                            /\ Len(log[j].line) > 2
                            /\ log[j].line[1] =
                                 (IF log[i].res = "NontrivialCycle"
                                  THEN "NONTRIVIAL_CYCLE_START"
                                  ELSE "RUNAWAY_STEPS_OVERFLOW_START")
                            /\ log[j].line[2] = Space
                            /\ parse(SubSeq(log[j].line, 3, Len(log[j].line)))
                                 = Some(log[i].value)
                            /\ log[j].res = "ok"
                               => solution_file = FileOf(<<log[j].line>>)
            ELSE /\ (\A j \in DOMAIN log : j > i => ~IsClassify(log[j]))
                      /\ Terminated
                    => cfg.count_arg # None /\ processed >= Unwrap(cfg.count_arg)
                 /\ \A j \in DOMAIN log :
                        (/\ j > i
                         /\ IsClassify(log[j])
                         /\ \A k \in (i + 1)..(j - 1) : ~IsClassify(log[k])
                         /\ ~cfg.random)
                        => log[j].value = log[i].value + 1

C4_Witness ==
    /\ Len(Classified) >= 2
    /\ Classified[Len(Classified)].res = "StepsOverflow"
    /\ Classified[Len(Classified)].value = 6
    /\ pc = "exit0"
    /\ solution_file = FileOf(<<<<"RUNAWAY_STEPS_OVERFLOW_START", Space, "6">>>>)

\* C5: the solution file is written at most once in a run, only after a
\* finding (never while every outcome is ReachesOne, so never at a stop by
\* the count limit), and keeps what that one write left.
C5_SolutionWrittenOnlyOnFinding ==
    /\ Len(SolutionWrites) <= 1
    /\ SolutionWrites = <<>> => solution_file = Absent
    /\ SolutionWrites # <<>>
       => /\ \E i \in DOMAIN Classified : Classified[i].res \in Findings
          /\ SolutionWrites[1].res = "ok"
             => solution_file = FileOf(<<SolutionWrites[1].line>>)
          /\ SolutionWrites[1].res = "open_err" => solution_file = Absent
    /\ (Terminated /\ \A i \in DOMAIN Classified : Classified[i].res = "ReachesOne")
       => solution_file = Absent

C5_Witness ==
    /\ pc = "hold"
    /\ Len(SolutionWrites) = 1
    /\ SolutionWrites[1].res = "ok"
    /\ IsProgressWrite(log[Len(log)])
    /\ solution_file = FileOf(<<SolutionWrites[1].line>>)

\* C6: a failed checkpoint or solution write is the last thing the scan does:
\* the process is at exit code 1, nothing was classified or written after it,
\* with or without visualization; and nothing else leads to exit code 1.
C6_WriteFailureIsFatal ==
    /\ \A i \in DOMAIN log :
          IsFailedWrite(log[i]) => i = Len(log) /\ pc = "exit1"
    /\ pc = "exit1" => log # <<>> /\ IsFailedWrite(log[Len(log)])

C6_Witness ==
    /\ cfg.viz
    /\ pc = "exit1"
    /\ Len(Classified) >= 2
    /\ IsSolutionWrite(log[Len(log)])
    /\ log[Len(log)].res = "sync_err"

\* C7: once the start is selected it is the explicit start, else (resume
\* enabled and the checkpoint holds a value) that value plus one, else the
\* default; and only a failed write ever makes the process fail.
C7_StartSelection ==
    pc \notin {"init", "off"}
    => /\ start = (IF cfg.start_arg # None THEN cfg.start_arg[1]
                   ELSE IF cfg.resume /\ HoldsValue(progress_at_start)
                        THEN HeldValue(progress_at_start) + 1
                   ELSE 2 ^ DefaultStartBits)
       /\ pc = "exit1" => log # <<>> /\ IsFailedWrite(log[Len(log)])

C7_Witness ==
    /\ pc = "draw"
    /\ cfg.start_arg = None
    /\ cfg.resume
    /\ progress_at_start = FileOf(<<<<"x">>, <<Space>>>>)
    /\ start = 2 ^ DefaultStartBits
    /\ current = start

\* A buffer holding k messages.
FilledChan(k) == [i \in 1..k |-> Draw(0)]

\* C8: the scan does not depend on the visualization.  No consumer step
\* changes the scan's state (files and history included), and every step the
\* producer takes on its own state is the step it would take with no sender at
\* all, or with any other occupancy of the buffer, the receiver alive or gone.
\* (Startup, Classify, HandleOutcome and FinalCheckpoint read neither the
\* channel nor the sender; what remains of the producer is compared here.)
C8_ScanIndependentOfViz ==
    [][ /\ Consumer => UNCHANGED scanVars
        /\ \A vz \in BOOLEAN, k \in 0..ChannelCapacity, alive \in BOOLEAN :
              /\ SendDraw => SendDrawScan(vz, FilledChan(k), alive)
              /\ Advance =>
                    \E e \in BOOLEAN : AdvanceScan(vz, FilledChan(k), alive, e)
              /\ LimitCheck => LimitCheckScan(vz, FilledChan(k), alive)
        /\ Finish \/ HoldOpen
              => UNCHANGED <<start, processed, current, outcome, progress_file,
                             solution_file, log>>
      ]_vars

C8_Witness ==
    /\ cfg.viz
    /\ viz_state = "exited"
    /\ ~rx_alive
    /\ pc = "hold"
    /\ Len(Classified) >= 3
    /\ Len(ProgressWrites) >= 3

\* C9: a producer step that sends is enabled whatever the buffer holds, a send
\* to a full buffer leaves the buffer as it was, and the buffer never holds
\* more than 4 messages.
C9_SendsNeverBlock ==
    /\ [](Len(chan) <= 4)
    /\ [](pc \in {"draw", "advance", "limit"}
            => ENABLED (SendDraw \/ Advance \/ LimitCheck))
    /\ [][(SendDraw \/ Advance \/ LimitCheck) /\ Len(chan) >= 4
            => chan' = chan]_vars

C9_Witness ==
    /\ pc = "outcome"
    /\ DrawDue(cfg.viz)
    /\ rx_alive
    /\ Len(chan) = 4
    /\ chan[4] # Draw(current)

\* The orbit step the claim names.
RefStep(n) == IF n % 2 = 0 THEN n \div 2 ELSE 3 * n + 1

\* The k-th iterate of the orbit step.  k is halved and the middle value is
\* computed before the second half, which keeps the evaluation shallow.
RECURSIVE RefIter(_, _)
RefIter(n, k) ==
    IF k = 0 THEN n
    ELSE IF k = 1 THEN RefStep(n)
    ELSE LET h == k \div 2
             m == RefIter(n, h)
         IN  IF m >= 0 THEN RefIter(m, k - h) ELSE 0

\* Whether the orbit of n under the orbit step meets 1 within `fuel` steps.
RefReachesOne(n, fuel) == \E k \in 0..fuel : RefIter(n, k) = 1
OrbitFuel == 120

\* C10: with the ceiling out of reach, detect_outcome returns ReachesOne for
\* every start of 1..MaxStart whose orbit reaches 1.
C10_SmallStartsReachOne ==
    f_pc = "done" /\ f_ceiling = ClassifyCeiling /\ f_start >= 1
                  /\ RefReachesOne(f_start, OrbitFuel)
    => f_result = "ReachesOne"

C10_Witness ==
    /\ f_pc = "done"
    /\ f_ceiling = ClassifyCeiling
    /\ f_start = 27
    /\ f_result = "ReachesOne"

\* The cycle the orbit of n enters: the values within MaxCycleLen steps of
\* the OrbitFuel-th iterate that recur within MaxCycleLen steps.
MaxCycleLen == 3
RefOrbit(n, len) == {RefIter(n, k) : k \in 0..len}
RefCycle(n) ==
    {v \in RefOrbit(RefIter(n, OrbitFuel), MaxCycleLen) :
        v \in RefOrbit(RefStep(v), MaxCycleLen - 1)}

\* C11 as stated: a call of detect_outcome that ends below the ceiling returns
\* ReachesOne exactly when the cycle the orbit of start enters contains 1,
\* NontrivialCycle otherwise, and the walk from the meeting point visits
\* exactly the members of that cycle.
C11_WalkVisitsWholeCycle ==
    f_pc = "done" /\ f_result # "StepsOverflow"
    => /\ f_result = "ReachesOne" <=> 1 \in RefCycle(f_start)
       /\ f_result = "NontrivialCycle" <=> 1 \notin RefCycle(f_start)
       /\ walked = RefCycle(f_start)

\* C11 (amended): a call of detect_outcome that ends below the ceiling returns
\* ReachesOne exactly when the cycle the orbit of start enters contains 1,
\* NontrivialCycle otherwise; the walk from the meeting point visits members
\* of that cycle only: all of them when the result is NontrivialCycle, and
\* when it is ReachesOne the meeting point and 1, stopping at 1.
C11_CycleDecidesOutcome ==
    f_pc = "done" /\ f_result # "StepsOverflow"
    => /\ f_result = "ReachesOne" <=> 1 \in RefCycle(f_start)
       /\ f_result = "NontrivialCycle" <=> 1 \notin RefCycle(f_start)
       /\ walked \subseteq RefCycle(f_start)
       /\ f_result = "NontrivialCycle" => walked = RefCycle(f_start)
       /\ f_result = "ReachesOne" => {meet, 1} \subseteq walked /\ x = 1

C11_Witness ==
    /\ f_pc = "done"
    /\ f_start = 0
    /\ f_ceiling = ClassifyCeiling
    /\ f_result = "NontrivialCycle"
    /\ walked = {0}

\* C12: a call of gen_range_biguint with low < high_inclusive returns a value
\* of low..high_inclusive whatever the generator puts out; a call with
\* low >= high_inclusive returns low and has not called the generator.
C12_SampleInRange ==
    s_pc = "done"
    => IF s_low < s_high
       THEN s_low <= s_result /\ s_result <= s_high
       ELSE s_result = s_low /\ rng_calls = 0

C12_Witness ==
    /\ s_pc = "done"
    /\ s_low = 2
    /\ s_high = 20
    /\ s_result = 20
    /\ rng_calls = 2 * calls_to_fill(s_len)

\* C20: with span = high_inclusive - low + 1, a pass of the loop returns
\* exactly when its draw v is below span, and then returns low + v; a pass
\* that rejects leaves the call in the loop with the same byte length; and at
\* the head of the loop every value r of low..high_inclusive can be returned,
\* by the draw r - low and no other.
C20_AcceptanceRule ==
    /\ [][SampleDraw
            => /\ s_pc' = "done" <=> s_v' < s_high - s_low + 1
               /\ s_v' = from_bytes_be(s_buf')
               /\ s_pc' = "done"
                    => s_result' = s_low + s_v' /\ s_v' = s_result' - s_low
               /\ s_pc' # "done"
                    => s_pc' = "loop" /\ s_len' = s_len /\ Len(s_buf') = s_len]_vars
    /\ [](s_pc = "loop" /\ rng_calls + calls_to_fill(s_len) <= MaxRngCalls
            => \A r \in s_low..s_high :
                   ENABLED (SampleDraw /\ s_pc' = "done" /\ s_result' = r))

C20_Witness ==
    /\ s_pc = "done"
    /\ s_low = 3
    /\ s_high = 7
    /\ s_buf = <<1, 0>>
    /\ s_result = 7
    /\ rng_calls = 3

\* C13: in random mode no checkpoint write happens and the checkpoint file
\* stays as the process found it; every candidate lies in
\* rand_low..rand_high_inclusive and, whatever the start option or the
\* checkpoint found, the next candidate can be any value of that range; a
\* finding is the last candidate classified, its record is written to the
\* solution file and the loop is left.
C13_RandomModeKeepsCheckpoint ==
    cfg.random
    => /\ ProgressWrites = <<>>
       /\ progress_file = progress_at_start
       /\ pc # "final_ckpt"
       /\ \A i \in DOMAIN Classified :
             /\ rand_low <= Classified[i].value
             /\ Classified[i].value <= rand_high_inclusive
             /\ Classified[i].res \in Findings
                => /\ i = Len(Classified)
                   /\ pc \in {"draw", "outcome", "after_loop", "hold", "exit0",
                              "exit1"}
                   /\ pc \in {"after_loop", "hold", "exit0"}
                      => solution_file =
                           FileOf(<<SolutionLine(Classified[i].res,
                                                 Classified[i].value)>>)
       /\ pc = "classify"
          => next_candidates(cfg.random, start, processed)
               = rand_low..rand_high_inclusive

C13_Witness ==
    /\ cfg.random
    /\ cfg.start_arg = Some(1)
    /\ HoldsValue(progress_at_start)
    /\ pc = "exit0"
    /\ Len(Classified) = 2
    /\ Classified[1].value = 5
    /\ Classified[2].res = "StepsOverflow"
    /\ solution_file = FileOf(<<SolutionLine("StepsOverflow", 7)>>)
    /\ progress_file = progress_at_start

FirstStart == log[1].value

\* C15: when a run starts after a crash, every candidate that was classified
\* NontrivialCycle or StepsOverflow and that the checkpoint has reached has
\* its record in the solution file.
C15_FindingSurvivesCrash ==
    pc = "init" /\ Crashes >= 1 /\ HoldsValue(progress_file)
    => \A i \in DOMAIN Classified :
           Classified[i].res \in Findings
           /\ Classified[i].value <= HeldValue(progress_file)
           => /\ solution_file.exists
              /\ \E k \in DOMAIN solution_file.lines :
                     solution_file.lines[k] =
                         SolutionLine(Classified[i].res, Classified[i].value)

\* C16: when a run starts after a crash, every value from the start of the
\* first run up to the value the checkpoint holds has been classified.
C16_NoCandidateSkipped ==
    pc = "init" /\ Crashes >= 1 /\ HoldsValue(progress_file)
                /\ log[1].ev = "write_progress" /\ log[1].res = "ok"
    => \A v \in FirstStart..HeldValue(progress_file) :
           \E i \in DOMAIN Classified : Classified[i].value = v

\* C17: in the detection loop, after k passes the tortoise is 1 + k steps and
\* the hare 2 + 2k steps ahead of start: one and two steps before the first
\* pass, one and two steps more with each pass.
C17_FloydPositions ==
    f_pc = "detect"
    => /\ tortoise = RefIter(f_start, 1 + step_count)
       /\ hare = RefIter(f_start, 2 + 2 * step_count)

\* C18: a sequential run in which every outcome so far is ReachesOne
\* classifies start, start + 1, .. in that order; with a count limit N it
\* classifies no more than N candidates and has classified exactly N when it
\* has left the loop; with no count limit it does not leave the loop.
C18_CountLimit ==
    ~cfg.random /\ (\A i \in DOMAIN Classified : Classified[i].res = "ReachesOne")
    => /\ \A i \in DOMAIN Classified : Classified[i].value = start + i - 1
       /\ cfg.count_arg # None
          => /\ Len(Classified) <= Unwrap(cfg.count_arg)
             /\ Terminated => Len(Classified) = Unwrap(cfg.count_arg)
       /\ cfg.count_arg = None => ~Terminated

\* C19: every call of detect_outcome returns; the detection loop is left
\* only with tortoise = hare or with the step counter at the ceiling, the
\* walk is left only with a result, and the result is StepsOverflow exactly
\* when tortoise and hare differed at the head of every pass before the
\* counter reached the ceiling.
C19_ClassifyTerminates ==
    /\ <>(f_pc = "done")
    /\ [](f_pc \in {"entry", "detect", "walk"} => ENABLED NextClassify)
    /\ [](f_pc = "detect" => step_count < f_ceiling)
    /\ [][f_pc = "detect" /\ f_pc' # "detect"
            => \/ tortoise = hare /\ f_pc' = "walk"
               \/ /\ tortoise # hare
                  /\ step_count' = f_ceiling
                  /\ f_pc' = "done"
                  /\ f_result' = "StepsOverflow"]_vars
    /\ [][f_pc = "walk" /\ f_pc' # "walk"
            => f_pc' = "done" /\ f_result' \in {"ReachesOne", "NontrivialCycle"}]_vars
    /\ [](f_pc = "done"
            => (f_result = "StepsOverflow"
                <=> \A k \in 0..(f_ceiling - 1) :
                        RefIter(f_start, 1 + k) # RefIter(f_start, 3 + 2 * k)))

C19_Witness ==
    /\ f_pc = "done"
    /\ f_start = 27
    /\ f_ceiling = StepCeiling
    /\ step_count = StepCeiling
    /\ f_result = "StepsOverflow"

\* The Draw messages received in the running pass, and the bit length of a
\* value n >= 1.
IsDraw(m) == m.kind = "Draw"
PolledDraws == SelectSeq(polled, IsDraw)
LastDrawn == PolledDraws[Len(PolledDraws)].value
RefBitLen(n) == CHOOSE b \in 1..16 : 2 ^ (b - 1) <= n /\ n < 2 ^ b

\* C21: receiving Draw(start) makes the animated value start and empties the
\* window of samples; receiving Stats changes neither; when the polling of a
\* pass has received Draw messages the animated value is the start of the
\* last of them and the window is empty until the pass records samples, and
\* the first sample it then records is that of the new start.
C21_DrawResetsAnimation ==
    /\ [][VizPoll /\ Head(chan).kind = "Draw"
            => current_n' = Some(Head(chan).value) /\ bits_window' = <<>>]_vars
    /\ [][VizPoll /\ Head(chan).kind = "Stats"
            => current_n' = current_n /\ bits_window' = bits_window]_vars
    /\ [](PolledDraws # <<>>
            => current_n = Some(LastDrawn) /\ bits_window = <<>>)
    /\ [][VizAnimate /\ PolledDraws # <<>>
            => /\ Len(bits_window') >= 1
               /\ bits_window'[1] = RefBitLen(LastDrawn)]_vars

C21_Witness ==
    /\ v_pc = "animate"
    /\ polled = <<Draw(1), Stats(2), Draw(3)>>
    /\ current_n = Some(3)
    /\ bits_window = <<>>
    /\ title = Some(2)

=============================================================================
